---- MODULE Spec2Model ----
(***************************************************************************)
(* Model of the patient-code conversion engine of uke_csv_editor:          *)
(*   gui.py          _strip_branch, _format_code, _normalize_code,         *)
(*                   _format_code_force_branch_general, convert_and_save   *)
(*   highlighter.py  _build_regex (the detection pattern)                  *)
(*   converter.py    convert_rows (RE_FIELD, FALLBACK_PAT_10, the stages)  *)
(* Strings are sequences of one-character strings; offsets are 0-based     *)
(* counts of consumed characters, as the end() of a Python match.          *)
(***************************************************************************)
EXTENDS Integers, Sequences, FiniteSets, TLC

\* ------------------------------------------------------------------ bounds
MaxCodeLen == 5
MaxN == 2
MaxL == 3
MaxT == 1
MaxTail == 2
MaxRows == 2
MaxManual == 1
\* register_suffix calls of a registry history
MaxCalls == 3

\* ------------------------------------------------------- program constants
FallbackWidth == 10

\* ------------------------------------------------------------- characters
Digits == {"0", "1", "2", "3", "4", "5", "6", "7", "8", "9"}
Whitespace == {" "}
Hyphen == "-"
Comma == ","
Quote == "\""

\* ------------------------------------------------- Python string helpers
\* s[:n]
Take(s, n) == SubSeq(s, 1, n)
\* s[n:]
Drop(s, n) == SubSeq(s, n + 1, Len(s))
\* s[-n:] for n >= 1
Right(s, n) == IF Len(s) > n THEN SubSeq(s, Len(s) - n + 1, Len(s)) ELSE s
\* s[:-n] for n >= 1
DropRight(s, n) == IF Len(s) > n THEN SubSeq(s, 1, Len(s) - n) ELSE <<>>
\* "0" * n
Zeros(n) == [i \in 1..n |-> "0"]
\* "," * n
Commas(n) == [i \in 1..n |-> Comma]
\* str.isdigit(): non-empty and every character a digit
isdigit(s) == Len(s) > 0 /\ \A i \in 1..Len(s) : s[i] \in Digits
\* str.zfill(w): pad on the left with "0", after a leading sign if any
zfill(s, w) ==
  IF Len(s) >= w THEN s
  ELSE IF Len(s) > 0 /\ s[1] \in {"+", "-"}
       THEN <<s[1]>> \o Zeros(w - Len(s)) \o Tail(s)
       ELSE Zeros(w - Len(s)) \o s
\* str.strip(): remove leading and trailing whitespace
RECURSIVE lstrip(_)
lstrip(s) == IF Len(s) > 0 /\ s[1] \in Whitespace THEN lstrip(Tail(s)) ELSE s
RECURSIVE rstrip(_)
rstrip(s) ==
  IF Len(s) > 0 /\ s[Len(s)] \in Whitespace THEN rstrip(Take(s, Len(s) - 1)) ELSE s
strip(s) == rstrip(lstrip(s))
\* "-" in s
HasHyphen(s) == \E i \in 1..Len(s) : s[i] = Hyphen
\* index (1-based) of the first "-" of s; s contains one
FirstHyphen(s) == CHOOSE i \in 1..Len(s) : s[i] = Hyphen /\ \A j \in 1..(i - 1) : s[j] # Hyphen
\* s.split("-", 1) of a string that contains a hyphen
SplitLeft(s) == Take(s, FirstHyphen(s) - 1)
SplitRight(s) == Drop(s, FirstHyphen(s))

\* ------------------------------------------------------------ gui.py 406
\* UKEEditorGUI._strip_branch: N = patient_code_len, mode = br_mode,
\* s1 / s2 = bm.list_suffixes(1) / bm.list_suffixes(2)
_strip_branch_any_mode(code, N, mode, s1, s2) ==
  IF mode # 2 /\ Len(code) = N + 1 /\ Right(code, 1) \in s1 THEN DropRight(code, 1)
  ELSE IF mode # 1 /\ Len(code) = N + 2 /\ Right(code, 2) \in s2 THEN DropRight(code, 2)
  ELSE code
_strip_branch(code, N, mode, s1, s2) ==
  IF mode = 1 /\ Len(code) = N + 1 /\ Right(code, 1) \in s1 THEN DropRight(code, 1)
  ELSE IF mode = 2 /\ Len(code) = N + 2 /\ Right(code, 2) \in s2 THEN DropRight(code, 2)
  ELSE code

\* ------------------------------------------------------------ gui.py 426
\* UKEEditorGUI._normalize_code: L = patient_code_conv_len
_normalize_code_pad_only(code, L) == zfill(code, L)
_normalize_code_cut_only(code, L) == IF Len(code) > L THEN Right(code, L) ELSE code
_normalize_code_keep_left(code, L) == IF Len(code) > L THEN Take(code, L) ELSE zfill(code, L)
_normalize_code(code, L) ==
  IF Len(code) > L THEN Right(code, L) ELSE zfill(code, L)

\* ------------------------------------------------------------ gui.py 415
\* The hyphen split of _format_code (lines 417-421)
HyphenSplit(raw, mode, s1, s2) ==
  IF HasHyphen(raw)
     /\ (   (mode = 2 /\ SplitRight(raw) \in s2)
         \/ (mode = 1 /\ SplitRight(raw) \in s1))
  THEN SplitLeft(raw)
  ELSE raw

\* The branch-suffix resolution of _format_code (lines 417-423): the hyphen
\* split followed by _strip_branch
ResolveBranch(raw, N, mode, s1, s2) ==
  _strip_branch(HyphenSplit(raw, mode, s1, s2), N, mode, s1, s2)

\* UKEEditorGUI._format_code
_format_code(raw, N, L, mode, s1, s2) ==
  _normalize_code(ResolveBranch(raw, N, mode, s1, s2), L)

\* ------------------------------------------------------------ gui.py 438
\* UKEEditorGUI._format_code_force_branch_general
_format_code_force_branch_general(raw, in_len, out_len) ==
  LET s == strip(raw)
  IN IF ~isdigit(s) THEN s ELSE zfill(Right(s, out_len), out_len)

\* ---------------------------------------------- regular-expression layer
\* character at 0-based offset i of s
At(s, i) == s[i + 1]
\* \s* from offset i (greedy): the offset of the first non-whitespace
RECURSIVE SkipWs(_, _)
SkipWs(s, i) == IF i < Len(s) /\ At(s, i) \in Whitespace THEN SkipWs(s, i + 1) ELSE i
\* "? from offset i (greedy)
SkipQuote(s, i) == IF i < Len(s) /\ At(s, i) = Quote THEN i + 1 ELSE i
\* the literal lit occurs in s at offset i
LitAt(s, i, lit) ==
  i + Len(lit) <= Len(s) /\ \A j \in 1..Len(lit) : At(s, i + j - 1) = lit[j]
\* a match: offsets of the whole match and of group 1
NoMatch == [start |-> -1, end |-> -1, gs |-> -1, ge |-> -1]
Match(st, en, gs, ge) == [start |-> st, end |-> en, gs |-> gs, ge |-> ge]
\* m.group(1)
Group1(s, m) == SubSeq(s, m.gs + 1, m.ge)

\* ------------------------------------------------------ converter.py 25
\* RE_FIELD = (^|,)\s*"?RE"?\s*(,|$), IGNORECASE: the part after (^|,),
\* from offset i; the end offset of the match, or -1
RE_FIELD_body(line, i) ==
  LET b == SkipQuote(line, SkipWs(line, i))
  IN IF b + 2 <= Len(line) /\ At(line, b) \in {"R", "r"} /\ At(line, b + 1) \in {"E", "e"}
     THEN LET e == SkipWs(line, SkipQuote(line, b + 2))
          IN IF e < Len(line) /\ At(line, e) = Comma THEN e + 1
             ELSE IF e = Len(line) THEN e
             ELSE -1
     ELSE -1
\* RE_FIELD matched at offset p: ^ first (only at offset 0), then the comma
RE_FIELD_at(line, p) ==
  IF p = 0 /\ RE_FIELD_body(line, 0) # -1 THEN RE_FIELD_body(line, 0)
  ELSE IF p < Len(line) /\ At(line, p) = Comma THEN RE_FIELD_body(line, p + 1)
  ELSE -1
\* RE_FIELD.search(line).end(), or -1 when the line has no anchor
RE_FIELD_search(line) ==
  IF \E p \in 0..Len(line) : RE_FIELD_at(line, p) # -1
  THEN LET p == CHOOSE q \in 0..Len(line) :
                  /\ RE_FIELD_at(line, q) # -1
                  /\ \A r \in 0..(q - 1) : RE_FIELD_at(line, r) = -1
       IN RE_FIELD_at(line, p)
  ELSE -1

\* --------------------------------------------------- highlighter.py 71
\* [0-9\-]
charclass == Digits \cup {Hyphen}
\* the outcome of a re.compile that raises re.error: no pattern
re_error == [kind |-> -1, lengths |-> <<>>, tc |-> <<>>, n |-> 0, sym |-> <<>>]
\* [0-9\-]{n} at offset i
ClassRun(s, i, n) == i + n <= Len(s) /\ \A j \in 0..(n - 1) : At(s, i + j) \in charclass
\* Highlighter._build_regex: the compiled pattern as a record.
\* detect_mode 0: ,\s*(cc{L1}|cc{L2}|...)\s*,{trailing_commas}
\* detect_mode 1: ,\s*(cc{1,n_digits})\s*<custom_sym or "*">
\* re.compile rejects the quantifier {1,0} of detect_mode 1 with n_digits 0
\* ("min repeat greater than max repeat"); every other pattern compiles.
_build_regex(n_digits, trailing_commas, detect_mode, custom_sym, allowed_code_lengths) ==
  IF detect_mode = 0
  THEN [kind |-> 0,
        lengths |-> IF allowed_code_lengths # <<>> THEN allowed_code_lengths ELSE <<n_digits>>,
        tc |-> Commas(trailing_commas), n |-> 0, sym |-> <<>>]
  ELSE IF n_digits = 0
  THEN re_error
  ELSE [kind |-> 1, lengths |-> <<>>, tc |-> <<>>, n |-> n_digits,
        sym |-> IF custom_sym # <<>> THEN custom_sym ELSE <<"*">>]

\* the pattern of detect_mode 0 matched at offset p: the alternatives of the
\* group are tried in order, the first that lets the rest match wins
Regex0_at_line_start(rx, s, p) ==
  IF p < Len(s) /\ (At(s, p) = Comma \/ p = 0)
  THEN LET a == SkipWs(s, IF At(s, p) = Comma THEN p + 1 ELSE p)
           ok(k) == /\ ClassRun(s, a, rx.lengths[k])
                    /\ LitAt(s, SkipWs(s, a + rx.lengths[k]), rx.tc)
       IN IF \E k \in 1..Len(rx.lengths) : ok(k)
          THEN LET k == CHOOSE k1 \in 1..Len(rx.lengths) :
                          ok(k1) /\ \A k2 \in 1..(k1 - 1) : ~ok(k2)
                   ge == a + rx.lengths[k]
               IN Match(p, SkipWs(s, ge) + Len(rx.tc), a, ge)
          ELSE NoMatch
  ELSE NoMatch
Regex0_at_exact(rx, s, p) ==
  IF p < Len(s) /\ At(s, p) = Comma
  THEN LET a == SkipWs(s, p + 1)
           ok(k) == /\ ClassRun(s, a, rx.lengths[k])
                    /\ LitAt(s, SkipWs(s, a + rx.lengths[k]), rx.tc)
                    /\ ~LitAt(s, SkipWs(s, a + rx.lengths[k]), rx.tc \o <<Comma>>)
       IN IF \E k \in 1..Len(rx.lengths) : ok(k)
          THEN LET k == CHOOSE k1 \in 1..Len(rx.lengths) :
                          ok(k1) /\ \A k2 \in 1..(k1 - 1) : ~ok(k2)
                   ge == a + rx.lengths[k]
               IN Match(p, SkipWs(s, ge) + Len(rx.tc), a, ge)
          ELSE NoMatch
  ELSE NoMatch
Regex0_at_lookahead(rx, s, p) ==
  IF p < Len(s) /\ At(s, p) = Comma
  THEN LET a == SkipWs(s, p + 1)
           ok(k) == /\ ClassRun(s, a, rx.lengths[k])
                    /\ LitAt(s, SkipWs(s, a + rx.lengths[k]), rx.tc)
       IN IF \E k \in 1..Len(rx.lengths) : ok(k)
          THEN LET k == CHOOSE k1 \in 1..Len(rx.lengths) :
                          ok(k1) /\ \A k2 \in 1..(k1 - 1) : ~ok(k2)
                   ge == a + rx.lengths[k]
               IN Match(p, ge, a, ge)
          ELSE NoMatch
  ELSE NoMatch
Regex0_at(rx, s, p) ==
  IF p < Len(s) /\ At(s, p) = Comma
  THEN LET a == SkipWs(s, p + 1)
           ok(k) == /\ ClassRun(s, a, rx.lengths[k])
                    /\ LitAt(s, SkipWs(s, a + rx.lengths[k]), rx.tc)
       IN IF \E k \in 1..Len(rx.lengths) : ok(k)
          THEN LET k == CHOOSE k1 \in 1..Len(rx.lengths) :
                          ok(k1) /\ \A k2 \in 1..(k1 - 1) : ~ok(k2)
                   ge == a + rx.lengths[k]
               IN Match(p, SkipWs(s, ge) + Len(rx.tc), a, ge)
          ELSE NoMatch
  ELSE NoMatch

\* the pattern of detect_mode 1 matched at offset p: the group is greedy
\* (longest first), and so is the \s* before the symbol
Regex1_at(rx, s, p) ==
  IF p < Len(s) /\ At(s, p) = Comma
  THEN LET a == SkipWs(s, p + 1)
           ok(n, b) == /\ ClassRun(s, a, n)
                       /\ a + n <= b /\ b <= SkipWs(s, a + n)
                       /\ LitAt(s, b, rx.sym)
           cand == {nb \in (1..rx.n) \X (0..Len(s)) : ok(nb[1], nb[2])}
       IN IF cand # {}
          THEN LET best == CHOOSE x \in cand :
                             \A y \in cand : y[1] < x[1] \/ (y[1] = x[1] /\ y[2] <= x[2])
               IN Match(p, best[2] + Len(rx.sym), a, a + best[1])
          ELSE NoMatch
  ELSE NoMatch

\* regex.match at offset p
Regex_at(rx, s, p) == IF rx.kind = 0 THEN Regex0_at(rx, s, p) ELSE Regex1_at(rx, s, p)

\* ------------------------------------------------------ converter.py 33
\* FALLBACK_PAT_10 = (?<=,)"?(\d{10})"?(?=<tc>(?:,|$)) as a record
FALLBACK_PAT_10(trailing_commas) ==
  [kind |-> 2, lengths |-> <<FallbackWidth>>, tc |-> Commas(trailing_commas), n |-> 0, sym |-> <<>>]
\* the lookahead (?=<tc>(?:,|$)) at offset r
FallbackAhead(s, r, tc) ==
  /\ LitAt(s, r, tc)
  /\ (r + Len(tc) = Len(s) \/ At(s, r + Len(tc)) = Comma)
Fallback_at(rx, s, p) ==
  IF p >= 1 /\ At(s, p - 1) = Comma
  THEN LET q == SkipQuote(s, p)
           ge == q + FallbackWidth
       IN IF ge <= Len(s) /\ (\A j \in 0..(FallbackWidth - 1) : At(s, q + j) \in Digits)
          THEN IF FallbackAhead(s, SkipQuote(s, ge), rx.tc)
               THEN Match(p, SkipQuote(s, ge), q, ge)
               ELSE IF FallbackAhead(s, ge, rx.tc) THEN Match(p, ge, q, ge)
               ELSE NoMatch
          ELSE NoMatch
  ELSE NoMatch

\* RE_FIELD (converter.py 25, gui.py 460) as a record, and its match at offset p
RE_FIELD == [kind |-> 3, lengths |-> <<>>, tc |-> <<>>, n |-> 0, sym |-> <<>>]
REField_at(s, p) ==
  IF RE_FIELD_at(s, p) # -1 THEN Match(p, RE_FIELD_at(s, p), -1, -1) ELSE NoMatch

\* pattern.match at offset p, for any of the patterns
Pattern_at(rx, s, p) ==
  IF rx.kind = 3 THEN REField_at(s, p)
  ELSE IF rx.kind = 2 THEN Fallback_at(rx, s, p)
  ELSE Regex_at(rx, s, p)

\* pattern.finditer(s) from offset p: the non-overlapping matches, left to right
RECURSIVE finditer_from(_, _, _)
finditer_from(rx, s, p) ==
  IF p > Len(s) THEN <<>>
  ELSE LET m == Pattern_at(rx, s, p)
       IN IF m = NoMatch THEN finditer_from(rx, s, p + 1)
          ELSE <<m>> \o finditer_from(rx, s, IF m.end > p THEN m.end ELSE p + 1)
finditer(rx, s) == finditer_from(rx, s, 0)

\* pattern.sub(repl, s): ms = finditer, repls[i] = what repl returned for ms[i]
RECURSIVE sub_from(_, _, _, _, _)
sub_from(s, ms, repls, i, pos) ==
  IF i > Len(ms) THEN Drop(s, pos)
  ELSE SubSeq(s, pos + 1, ms[i].start) \o repls[i] \o sub_from(s, ms, repls, i + 1, ms[i].end)
sub(s, ms, repls) == sub_from(s, ms, repls, 1, 0)

\* ",".join(row)
RECURSIVE join(_)
join(row) ==
  IF Len(row) = 0 THEN <<>>
  ELSE IF Len(row) = 1 THEN row[1]
  ELSE row[1] \o <<Comma>> \o join(Tail(row))
\* line.count(',')
count_commas(line) == Cardinality({i \in 1..Len(line) : line[i] = Comma})

\* ------------------------------------------------------------------ state
VARIABLES
  engine,                 \* which conversion runs: convert_rows or convert_and_save
  patient_code_len,       \* gui.py 39: N, the detection width
  patient_code_conv_len,  \* gui.py 40: L, the conversion width
  trailing_commas,        \* gui.py 41: T
  br_mode,                \* gui.py 65: 0 = off, 1 = strip-1, 2 = strip-2
  detect_mode,            \* gui.py 45: 0 = trailing commas, 1 = custom symbol
  custom_sym,             \* gui.py 46
  suffixes_1d,            \* branch_manager.py: the registered 1-digit suffixes
  suffixes_2d,            \* branch_manager.py: the registered 2-digit suffixes
  regex,                  \* Highlighter.regex, as built by _setup_highlighter
  rows,                   \* the loaded rows (a sequence of sequences of fields)
  idx,                    \* number of rows the conversion loop has processed
  phase,                  \* position of the run
  out_lines,              \* the output lines
  changes_rows,           \* the change log
  error_rows,             \* the error log (convert_rows)
  counters,               \* the counters of convert_and_save (gui.py 466-480)
  arg,                    \* the argument of a helper applied on its own
  res,                    \* its result
  op,                     \* which helper was applied
  branches_json,          \* branch_manager.py 24: the content of branches.json
  calls                   \* the arguments register_suffix was called with

regvars == <<branches_json, calls>>
cfgvars == <<engine, patient_code_len, patient_code_conv_len, trailing_commas, br_mode,
             detect_mode, custom_sym, suffixes_1d, suffixes_2d, regex, regvars>>
runvars == <<rows, idx, phase, out_lines, changes_rows, error_rows, counters>>
fnvars == <<arg, res, op>>
vars == <<cfgvars, runvars, fnvars>>

\* the value None of a converted_line that is not filled in
None == <<"<None>">>

\* ------------------------------------------------------------ gui.py 282
\* UKEEditorGUI._setup_highlighter: the allowed widths and the pattern
allowed_code_lengths(base, mode, dmode) ==
  IF dmode = 0
  THEN IF mode = 1 THEN <<base, base + 1>>
       ELSE IF mode = 2 THEN <<base, base + 2>>
       ELSE <<base>>
  ELSE <<>>
_setup_highlighter(base, tcs, mode, dmode, sym) ==
  _build_regex(base, tcs, dmode, sym, allowed_code_lengths(base, mode, dmode))

\* the callables convert_rows is given (converter.py 10-11)
primary_fn(old) ==
  _format_code(old, patient_code_len, patient_code_conv_len, br_mode, suffixes_1d, suffixes_2d)
fallback_fn(old) ==
  _format_code_force_branch_general(old, FallbackWidth, patient_code_conv_len)

\* ------------------------------------------------------- records of a run
\* [line_no, original_code, converted_code, original_line, converted_line, method]
ChangeRecord(ln, old, new, line, conv, method) ==
  [line_no |-> ln, original_code |-> old, converted_code |-> new,
   original_line |-> line, converted_line |-> conv, method |-> method]
\* [line_no, matched_codes, error_reason, original_line]
ErrorRecord(ln, codes, reason, line) ==
  [line_no |-> ln, matched_codes |-> codes, error_reason |-> reason, original_line |-> line]

\* the records a replacement callback appends: one per match whose new code
\* differs from the old, in match order
RECURSIVE changed_records(_, _, _, _, _, _)
changed_records(ln, line, olds, news, method, i) ==
  IF i > Len(olds) THEN <<>>
  ELSE (IF news[i] # olds[i]
        THEN <<ChangeRecord(ln, olds[i], news[i], line, None, method)>>
        ELSE <<>>)
       \o changed_records(ln, line, olds, news, method, i + 1)

\* converter.py 67-69, 113-115, 126-128: fill converted_line of the records
\* of line ln that have none
fill_converted_line(changes, ln, fixed) ==
  [i \in 1..Len(changes) |->
     IF changes[i].line_no = ln /\ changes[i].converted_line = None
     THEN [changes[i] EXCEPT !.converted_line = fixed]
     ELSE changes[i]]

\* list(dict.fromkeys(codes)): duplicates dropped, first occurrences kept
RECURSIVE dedup(_)
dedup(codes) ==
  IF codes = <<>> THEN <<>>
  ELSE LET rest == dedup(Take(codes, Len(codes) - 1))
           last == codes[Len(codes)]
       IN IF \E i \in 1..Len(rest) : rest[i] = last THEN rest ELSE Append(rest, last)
\* " ".join(codes)
RECURSIVE join_space(_)
join_space(codes) ==
  IF Len(codes) = 0 THEN <<>>
  ELSE IF Len(codes) = 1 THEN codes[1]
  ELSE codes[1] \o <<" ">> \o join_space(Tail(codes))

\* variant: the replacement text without the leading comma
replacement_code_only(new, tcs) == new \o Commas(tcs)
\* the replacement text f",{new}{tc}"
replacement(new, tcs) == <<Comma>> \o new \o Commas(tcs)
\* the group-1 texts of the matches ms of s
groups(s, ms) == [i \in 1..Len(ms) |-> Group1(s, ms[i])]

\* converter.py 44-45, gui.py 501-502: the line is cut at the end offset k of
\* the first anchor match
head_of_cut_short(line, k) == Take(line, k - 1)
head_of(line, k) == Take(line, k)
tail_of(line, k) == Drop(line, k)

\* the new codes of a replacement callback, one per captured code
map_primary(olds) == [i \in 1..Len(olds) |-> primary_fn(olds[i])]
map_fallback(olds) == [i \in 1..Len(olds) |-> fallback_fn(olds[i])]
\* the flag a callback sets: some new code differs from its old code
differs(olds, news) == \E i \in 1..Len(olds) : news[i] # olds[i]
\* pattern.sub(_repl, s) for a callback that returns f",{new}{tc}"
sub_codes(s, ms, news) ==
  sub(s, ms, [i \in 1..Len(ms) |-> replacement(news[i], trailing_commas)])

\* ------------------------------------------------------ converter.py 35
\* One iteration of the loop of convert_rows on row number ln, as a chain of
\* steps; each returns the output line, the change log and the error log
\* after the iteration.
\* converter.py 62-74: the end of stage 0
stage0_end_no_error(ln, line, fallback_changed, fixed_line_fb, changes_fb, errors) ==
  IF fallback_changed
  THEN [out |-> fixed_line_fb,
        changes |-> fill_converted_line(changes_fb, ln, fixed_line_fb),
        errors |-> errors]
  ELSE [out |-> line, changes |-> changes_fb, errors |-> errors]
stage0_end(ln, line, fallback_changed, fixed_line_fb, changes_fb, errors) ==
  IF fallback_changed
  THEN [out |-> fixed_line_fb,
        changes |-> fill_converted_line(changes_fb, ln, fixed_line_fb),
        errors |-> errors]
  ELSE [out |-> line, changes |-> changes_fb,
        errors |-> Append(errors, ErrorRecord(ln, <<>>, "no_code_detected", line))]
\* converter.py 49-61, stage 0: no primary match, FALLBACK_PAT_10 alone
\* with fallback_fn; fbm are its matches and olds their captured codes
stage0(ln, line, head, tail, fbm, olds, changes, errors) ==
  stage0_end(ln, line,
             differs(olds, map_fallback(olds)),
             head \o sub_codes(tail, fbm, map_fallback(olds)),
             changes \o changed_records(ln, line, olds, map_fallback(olds), <<"fallback">>, 1),
             errors)
\* converter.py 110-122: the end of stage 2
stage2_end_error_too(ln, line, matched_codes, changed_any_2, fixed_line_2, changes_2, errors) ==
  [out |-> IF changed_any_2 /\ fixed_line_2 # line THEN fixed_line_2 ELSE line,
   changes |-> fill_converted_line(changes_2, ln, fixed_line_2),
   errors |-> Append(errors,
                ErrorRecord(ln, join_space(dedup(matched_codes)), "no_change", line))]
stage2_end(ln, line, matched_codes, changed_any_2, fixed_line_2, changes_2, errors) ==
  IF changed_any_2 /\ fixed_line_2 # line
  THEN [out |-> fixed_line_2,
        changes |-> fill_converted_line(changes_2, ln, fixed_line_2),
        errors |-> errors]
  ELSE [out |-> line, changes |-> changes_2,
        errors |-> Append(errors,
                     ErrorRecord(ln, join_space(dedup(matched_codes)), "no_change", line))]
\* converter.py 107-108: FALLBACK_PAT_10 over the tail the primary pattern
\* has rewritten; m2b are its matches and old2b their captured codes
stage2b(ln, line, head, matched_codes, changed_2a, tail_2a, m2b, old2b, changes_2a, errors) ==
  stage2_end(ln, line, matched_codes,
             changed_2a \/ differs(old2b, map_fallback(old2b)),
             head \o sub_codes(tail_2a, m2b, map_fallback(old2b)),
             changes_2a \o changed_records(ln, line, old2b, map_fallback(old2b), <<"fallback">>, 1),
             errors)
\* converter.py 93-106, stage 2: the primary pattern with fallback_fn
stage2a(ln, line, head, matched_codes, changed_2a, tail_2a, changes_2a, errors) ==
  stage2b(ln, line, head, matched_codes, changed_2a, tail_2a,
          finditer(FALLBACK_PAT_10(trailing_commas), tail_2a),
          groups(tail_2a, finditer(FALLBACK_PAT_10(trailing_commas), tail_2a)),
          changes_2a, errors)
\* converter.py 76-94 and 124-128, stage 1: the primary pattern with
\* primary_fn; olds are the captured codes and news what primary_fn returned
stage1(ln, line, head, tail, matches, olds, news, fixed_line_1, changes, errors) ==
  IF ~differs(olds, news) /\ fixed_line_1 = line
  THEN stage2a(ln, line, head, olds,
               differs(olds, map_fallback(olds)),
               sub_codes(tail, matches, map_fallback(olds)),
               changes \o changed_records(ln, line, olds, news, <<"normal">>, 1)
                       \o changed_records(ln, line, olds, map_fallback(olds), <<"fallback">>, 1),
               errors)
  ELSE [out |-> fixed_line_1,
        changes |-> fill_converted_line(
                      changes \o changed_records(ln, line, olds, news, <<"normal">>, 1),
                      ln, fixed_line_1),
        errors |-> errors]
\* converter.py 47-49: the primary matches of the tail decide the stage
detect(ln, line, head, tail, matches, changes, errors) ==
  IF matches = <<>>
  THEN stage0(ln, line, head, tail,
              finditer(FALLBACK_PAT_10(trailing_commas), tail),
              groups(tail, finditer(FALLBACK_PAT_10(trailing_commas), tail)),
              changes, errors)
  ELSE stage1(ln, line, head, tail, matches,
              groups(tail, matches),
              map_primary(groups(tail, matches)),
              head \o sub_codes(tail, matches, map_primary(groups(tail, matches))),
              changes, errors)
\* converter.py 38-45: a line without anchor passes through; the others are
\* cut at the end offset k of the first anchor match
cut_row_no_passthrough(ln, line, k, changes, errors) ==
  detect(ln, line, head_of(line, IF k = -1 THEN 0 ELSE k),
         tail_of(line, IF k = -1 THEN 0 ELSE k),
         finditer(regex, tail_of(line, IF k = -1 THEN 0 ELSE k)), changes, errors)
cut_row(ln, line, k, changes, errors) ==
  IF k = -1
  THEN [out |-> line, changes |-> changes, errors |-> errors]
  ELSE detect(ln, line, head_of(line, k), tail_of(line, k),
              finditer(regex, tail_of(line, k)), changes, errors)
\* converter.py 35-36
convert_rows_row(ln, row, changes, errors) ==
  cut_row(ln, join(row), RE_FIELD_search(join(row)), changes, errors)

\* ----------------------------------------------------------- gui.py 450
\* the counters and row lists of convert_and_save before the loop
counters0 ==
  [re_token_total |-> 0, target_total |-> 0, converted_total |-> 0, fallback_total |-> 0,
   unchanged_same_len_rows |-> <<>>, no_re_rows |-> <<>>, re_nomatch_rows |-> <<>>,
   comma_mismatch_rows |-> <<>>, manual_converted_total |-> 0, manual_skipped_total |-> 0,
   manual_applies |-> 0]

\* gui.py 483, 522: the number of characters the forced strip drops
fallback_drop(mode) == IF mode = 2 THEN 2 ELSE IF mode = 1 THEN 1 ELSE 0
\* gui.py 524-530, _repl: the forced strip replaces a code _format_code left
\* unchanged, when the code is all digits and of width N + drop
repl_forced_any_new(old, new, drop, forced_new) ==
  IF drop > 0 /\ isdigit(old) /\ Len(old) = patient_code_len + drop
     /\ forced_new # old
  THEN [new |-> forced_new, method |-> <<"fallback">>]
  ELSE [new |-> new, method |-> <<"normal">>]
repl_forced(old, new, drop, forced_new) ==
  IF new = old /\ drop > 0 /\ isdigit(old) /\ Len(old) = patient_code_len + drop
     /\ forced_new # old
  THEN [new |-> forced_new, method |-> <<"fallback">>]
  ELSE [new |-> new, method |-> <<"normal">>]
\* gui.py 515-530, _repl: the new code and the method of one match
repl_convert(old) ==
  repl_forced(old, primary_fn(old), fallback_drop(br_mode),
              _normalize_code(DropRight(old, fallback_drop(br_mode)), patient_code_conv_len))

\* gui.py 545-554, _repl: what follows the new code. The pattern has no
\* group named sym and a single group, so the custom-symbol branch falls
\* back to tc as well
repl_suffix(dmode, lastindex, tcs) ==
  IF dmode = 1
  THEN IF lastindex >= 2 THEN <<>> ELSE Commas(tcs)
  ELSE Commas(tcs)
\* what _repl returns for each captured code
map_repl(olds) == [i \in 1..Len(olds) |-> repl_convert(olds[i])]
repl_texts(conv) ==
  [i \in 1..Len(conv) |->
     <<Comma>> \o conv[i].new \o repl_suffix(detect_mode, 1, trailing_commas)]

\* One iteration of the loop of convert_and_save (gui.py 485-567) on row
\* number ln, as a chain of steps; each returns the output line, the change
\* log and the counters after the iteration.
\* gui.py 531-567: the counters, the comma check and the records of a row
\* the pattern matched; conv is what _repl decided for each captured code
rewrite_row_changed_only(ln, line, olds, conv, fixed_line, changes, c) ==
  [out |-> fixed_line,
   changes |-> changes \o
      [i \in 1..Len(olds) |->
         ChangeRecord(ln, olds[i], conv[i].new, line, fixed_line, conv[i].method)],
   c |-> [c EXCEPT
            !.converted_total = @ + Cardinality({i \in 1..Len(olds) : conv[i].new # olds[i]}),
            !.fallback_total =
                @ + Cardinality({i \in 1..Len(olds) : conv[i].method = <<"fallback">>}),
            !.unchanged_same_len_rows =
                IF \E i \in 1..Len(olds) :
                     /\ conv[i].new = olds[i]
                     /\ isdigit(olds[i])
                     /\ Len(olds[i]) = patient_code_conv_len
                THEN Append(@, [line_no |-> ln, line |-> line])
                ELSE @,
            !.comma_mismatch_rows =
                IF fixed_line # line
                THEN Append(@, [line_no |-> ln, before |-> count_commas(line),
                                after |-> count_commas(fixed_line)])
                ELSE @]]
rewrite_row(ln, line, olds, conv, fixed_line, changes, c) ==
  [out |-> fixed_line,
   changes |-> changes \o
      [i \in 1..Len(olds) |->
         ChangeRecord(ln, olds[i], conv[i].new, line, fixed_line, conv[i].method)],
   c |-> [c EXCEPT
            !.converted_total = @ + Cardinality({i \in 1..Len(olds) : conv[i].new # olds[i]}),
            !.fallback_total =
                @ + Cardinality({i \in 1..Len(olds) : conv[i].method = <<"fallback">>}),
            !.unchanged_same_len_rows =
                IF \E i \in 1..Len(olds) :
                     /\ conv[i].new = olds[i]
                     /\ isdigit(olds[i])
                     /\ Len(olds[i]) = patient_code_conv_len
                THEN Append(@, [line_no |-> ln, line |-> line])
                ELSE @,
            !.comma_mismatch_rows =
                IF count_commas(fixed_line) # count_commas(line)
                THEN Append(@, [line_no |-> ln, before |-> count_commas(line),
                                after |-> count_commas(fixed_line)])
                ELSE @]]
\* gui.py 504-510, 556-557: the matches of the tail
detect_row(ln, line, head, tail, matches, changes, c) ==
  IF matches = <<>>
  THEN [out |-> line, changes |-> changes,
        c |-> [c EXCEPT !.re_nomatch_rows = Append(@, [line_no |-> ln, line |-> line])]]
  ELSE rewrite_row(ln, line, groups(tail, matches), map_repl(groups(tail, matches)),
                   head \o sub(tail, matches, repl_texts(map_repl(groups(tail, matches)))),
                   changes,
                   [c EXCEPT !.target_total = @ + Len(matches)])
\* gui.py 490-502: the anchors of the line; the line is cut at the first
anchor_row(ln, line, re_all, changes, c) ==
  IF re_all = <<>>
  THEN [out |-> line, changes |-> changes,
        c |-> [c EXCEPT !.no_re_rows = Append(@, [line_no |-> ln, line |-> line])]]
  ELSE detect_row(ln, line, head_of(line, re_all[1].end), tail_of(line, re_all[1].end),
                  finditer(regex, tail_of(line, re_all[1].end)), changes,
                  [c EXCEPT !.re_token_total = @ + Len(re_all)])
\* gui.py 485-488
convert_and_save_row(ln, row, changes, c) ==
  anchor_row(ln, join(row), finditer(RE_FIELD, join(row)), changes, c)

\* gui.py 569-573
unchanged_total(c) == IF c.target_total - c.converted_total > 0
                      THEN c.target_total - c.converted_total ELSE 0
should_open_manual(c) == c.converted_total < c.target_total \/ c.re_nomatch_rows # <<>>

\* ----------------------------------------------------------- gui.py 726
\* the pool of the manual dialog (gui.py 753-755): NO_RE, RE_BUT_NO_MATCH,
\* UNCHANGED_SAME_LEN, in this order
manual_pool(c) == c.no_re_rows \o c.re_nomatch_rows \o c.unchanged_same_len_rows

\* line.split(",") (gui.py 830-832)
RECURSIVE split_from(_, _, _)
split_from(line, i, cur) ==
  IF i > Len(line) THEN <<cur>>
  ELSE IF line[i] = Comma THEN <<cur>> \o split_from(line, i + 1, <<>>)
  ELSE split_from(line, i + 1, Append(cur, line[i]))
_split_fields(line) == split_from(line, 1, <<>>)

\* gui.py 849: the number of columns of the table, the longest row's
max_cols(pool) ==
  CHOOSE n \in {Len(_split_fields(pool[i].line)) : i \in 1..Len(pool)} :
    \A i \in 1..Len(pool) : Len(_split_fields(pool[i].line)) <= n

\* "".join(ch for ch in old if ch.isdigit())
only_digits(old) == SelectSeq(old, LAMBDA ch : ch \in Digits)

\* variant: a manual conversion counts as a conversion of the automatic pass
manual_convert_counted(ln, orig, fields, tcol, new_code, acc) ==
  IF new_code # fields[tcol + 1]
  THEN [outs |-> [acc.outs EXCEPT ![ln] = join([fields EXCEPT ![tcol + 1] = new_code])],
        changes |-> Append(acc.changes,
                      ChangeRecord(ln, fields[tcol + 1], new_code, orig,
                                   join([fields EXCEPT ![tcol + 1] = new_code]),
                                   <<"manual", tcol + 1>>)),
        c |-> [acc.c EXCEPT !.manual_converted_total = @ + 1,
                           !.converted_total = @ + 1]]
  ELSE acc
\* gui.py 959-985, _apply: the rows of the pool whose line number is in sel
\* are converted in pool order, each from its original line, in column tcol
\* (0-based; -1 = no column chosen). acc holds the output lines, the change
\* log and the counters so far.
\* gui.py 970-978: the field is replaced when the new code differs
manual_convert(ln, orig, fields, tcol, new_code, acc) ==
  IF new_code # fields[tcol + 1]
  THEN [outs |-> [acc.outs EXCEPT ![ln] = join([fields EXCEPT ![tcol + 1] = new_code])],
        changes |-> Append(acc.changes,
                      ChangeRecord(ln, fields[tcol + 1], new_code, orig,
                                   join([fields EXCEPT ![tcol + 1] = new_code]),
                                   <<"manual", tcol + 1>>)),
        c |-> [acc.c EXCEPT !.manual_converted_total = @ + 1]]
  ELSE acc
\* gui.py 963-970: a row without the column, or without a digit in it, is
\* skipped
manual_row(ln, orig, fields, tcol, acc) ==
  IF tcol < 0 \/ tcol >= Len(fields)
  THEN [acc EXCEPT !.c.manual_skipped_total = @ + 1]
  ELSE IF only_digits(fields[tcol + 1]) = <<>>
  THEN [acc EXCEPT !.c.manual_skipped_total = @ + 1]
  ELSE manual_convert(ln, orig, fields, tcol,
                      zfill(Right(only_digits(fields[tcol + 1]), patient_code_conv_len),
                            patient_code_conv_len),
                      acc)
RECURSIVE manual_apply(_, _, _, _, _)
manual_apply(pool, i, sel, tcol, acc) ==
  IF i > Len(pool) THEN acc
  ELSE manual_apply(pool, i + 1, sel, tcol,
                    IF pool[i].line_no \in sel
                    THEN manual_row(pool[i].line_no, pool[i].line,
                                    _split_fields(pool[i].line), tcol, acc)
                    ELSE acc)

\* ------------------------------------------------------ branch_manager.py
\* the order of str on digit strings: character by character, a proper
\* prefix first
digit_value(ch) == CHOOSE v \in 0..9 : <<"0", "1", "2", "3", "4", "5", "6", "7", "8", "9">>[v + 1] = ch
RECURSIVE str_less(_, _)
str_less(a, b) ==
  IF b = <<>> THEN FALSE
  ELSE IF a = <<>> THEN TRUE
  ELSE IF a[1] # b[1] THEN digit_value(a[1]) < digit_value(b[1])
  ELSE str_less(Tail(a), Tail(b))
\* sorted(set(xs)): the distinct strings of the list xs in ascending order
RECURSIVE sorted_set(_)
sorted_set(S) ==
  IF S = {} THEN <<>>
  ELSE <<CHOOSE x \in S : \A y \in S \ {x} : str_less(x, y)>>
       \o sorted_set(S \ {CHOOSE x \in S : \A y \in S \ {x} : str_less(x, y)})
elements(xs) == {xs[i] : i \in 1..Len(xs)}
\* branch_manager.py 53
_empty == [suffixes_1d |-> <<>>, suffixes_2d |-> <<>>]
\* branch_manager.py 56-69 and 71-82: the file read back, each list sorted
\* and without duplicates
_normalize_data(data) ==
  [suffixes_1d |-> sorted_set(elements(data.suffixes_1d)),
   suffixes_2d |-> sorted_set(elements(data.suffixes_2d))]
_load(file) == _normalize_data(file)
\* branch_manager.py 84-93: what _save writes to the file
_save_as_given(data) == data
_save(data) ==
  [suffixes_1d |-> sorted_set(elements(data.suffixes_1d)),
   suffixes_2d |-> sorted_set(elements(data.suffixes_2d))]
\* branch_manager.py 102-104: the test that raises ValueError
valid_suffix(s) == isdigit(s) /\ 1 <= Len(s) /\ Len(s) <= 2
\* branch_manager.py 106-112: the file after register_suffix of a valid,
\* stripped s; data is what _load returned
append_suffix(data, s) ==
  IF Len(s) = 1
  THEN IF s \in elements(data.suffixes_1d) THEN data
       ELSE _save([data EXCEPT !.suffixes_1d = Append(@, s)])
  ELSE IF s \in elements(data.suffixes_2d) THEN data
       ELSE _save([data EXCEPT !.suffixes_2d = Append(@, s)])
register_suffix(file, suffix) ==
  IF ~valid_suffix(strip(suffix))
  THEN [file |-> file, raised |-> "ValueError"]
  ELSE [file |-> append_suffix(_load(file), strip(suffix)), raised |-> "none"]
\* branch_manager.py 114-126
list_suffixes(file, digits) ==
  IF digits = 1 THEN _load(file).suffixes_1d
  ELSE IF digits = 2 THEN _load(file).suffixes_2d
  ELSE sorted_set(elements(_load(file).suffixes_1d \o _load(file).suffixes_2d))

\* ----------------------------------------------------------- the inputs
\* the registered suffixes a run may find (branch_manager.py 96-112 stores
\* 1-digit strings in suffixes_1d and 2-digit strings in suffixes_2d)
Suffixes1 == {{}, {<<"1">>}}
Suffixes2 == {{}, {<<"0", "1">>}}
\* the custom symbols
Symbols == {<<"*">>}
\* a row is a head (no anchor, or a quoted lower-case anchor and an empty
\* field, so that the tail starts at a comma) followed by tail fields; lines
\* are the rows joined with commas
RE == <<"R", "E">>
HeadSet ==
  { <<>>,
    << <<"X">>, <<" ", "\"", "r", "e", "\"">>, <<>> >> }
TailFieldSet ==
  { <<>>,
    <<"1", "2">>,
    <<"1", "-", "1">>,
    <<"0", "0", "0", "0", "0", "0", "4", "6", "8", "0">> }
TailSet == UNION {[1..n -> TailFieldSet] : n \in 0..MaxTail}
WideRows == {h \o t : h \in HeadSet, t \in TailSet} \ {<<>>}
\* rows of particular shapes: no anchor, a custom symbol, a hyphenated code
\* of width N+2
BatchRows ==
  { << <<"X">> >>,
    << RE, <<"X">>, <<"1", "2", "*">>, <<>> >>,
    << RE, <<"X">>, <<"1", "-", "0", "1">>, <<>> >> }
\* more shapes: a code right after the anchor, a blank-padded code, a second
\* anchor, more than T commas, codes of width N+1 and N+2 with and without a
\* registered suffix, a quoted 10-digit code, several candidates, a code
\* without an anchor, two candidates one comma apart, a repeated code, three
\* candidates of different widths behind a short number
CoreRows ==
  BatchRows \cup
  { << RE, <<"1", "2">>, <<>> >>,
    << RE, <<"X">>, <<" ", "1", "2", " ">>, <<>> >>,
    << RE, <<>>, <<"1", "2">>, RE >>,
    << RE, <<>>, <<"1", "2">>, <<>>, <<>> >>,
    << RE, <<"X">>, <<"1", "2", "1">>, <<>> >>,
    << RE, <<"X">>, <<"1", "2", "3">>, <<>> >>,
    << RE, <<"X">>, <<"1", "2", "0", "1">>, <<>> >>,
    << RE, <<"X">>, <<"\"", "0", "0", "0", "0", "0", "0", "4", "6", "8", "0", "\"">>, <<>>, <<>> >>,
    << RE, <<"X">>, <<"1", "2">>, <<>>, <<"1", "2">>, <<>>, <<"0", "0", "0", "0", "0", "0", "4", "6", "8", "0">>, <<>> >>,
    << <<"X">>, <<"1", "2">>, <<>> >>,
    << RE, <<"X">>, <<"1", "2">>, <<"1", "2">>, <<>> >>,
    << RE, <<"X">>, <<"1", "2">>, <<>>, <<"2", "1">>, <<>>, <<"1", "2">>, <<>> >>,
    << RE, <<"7">>, <<"1", "2", "3">>, <<>>, <<"1", "2">>, <<>>, <<"0", "0", "0">>, <<>> >> }
\* the batches: every single row, and the short batches of distinct rows of
\* BatchRows in every order (rows are converted independently of each other;
\* only the logs and the counters run through a batch)
BatchSet ==
  {<<r>> : r \in WideRows \cup CoreRows}
    \cup UNION {{b \in [1..n -> BatchRows] : \A i, j \in 1..n : b[i] = b[j] => i = j} :
                  n \in 2..MaxRows}

\* rows of the shapes of the documented example (gui.py 1251-1255) for the
\* default width 10 (gui.py 39): a 10-digit code with a registered suffix,
\* hyphenated and concatenated, a quoted code, an 8-digit date, a plain
\* code, and two codes 2 and 3 commas apart
Code10 == <<"0", "0", "0", "0", "0", "0", "4", "6", "8", "0">>
ScenarioRows ==
  { << RE, <<"X">>, Code10 \o <<"-", "0", "2">>, <<>>, <<>> >>,
    << RE, <<"X">>, Code10 \o <<"0", "2">>, <<>>, <<>> >>,
    << RE, <<"X">>, <<"\"">> \o Code10 \o <<"\"">>, <<>>, <<>> >>,
    << RE, <<"X">>, <<"2", "0", "2", "5", "0", "1", "3", "1">>, <<>>, <<>> >>,
    << RE, <<"X">>, Code10, <<>>, <<>> >>,
    << RE, <<"X">>, Code10, <<>>, Code10, <<>>, <<>> >>,
    << RE, <<"X">>, Code10, <<>>, <<>>, Code10, <<>>, <<>> >> }
ScenarioBatches == {<<r>> : r \in ScenarioRows}

\* ------------------------------------------------------------------ Init
\* the settings (gui.py 1060-1069, 1106-1108: widths and comma count are
\* at least 1) and the pattern _setup_highlighter builds from them
InitCfg ==
  /\ patient_code_len \in {2}
  /\ patient_code_conv_len \in 1..MaxL
  /\ trailing_commas \in 1..MaxT
  /\ br_mode \in {0, 1, 2}
  /\ detect_mode \in {0, 1}
  /\ custom_sym \in Symbols
  /\ suffixes_1d = {<<"1">>}
  /\ suffixes_2d = {<<"0", "1">>}
  /\ regex = _setup_highlighter(patient_code_len, trailing_commas, br_mode,
                                detect_mode, custom_sym)

\* the default settings of gui.py 39-45 (N = 10, T = 2, trailing-comma
\* mode) with the 2-digit branch mode and the registered suffix "02" of the
\* documented example, and the conversion width 6 or 10
InitScenario ==
  /\ patient_code_len = 10
  /\ patient_code_conv_len \in {6, 10}
  /\ trailing_commas = 2
  /\ br_mode = 2
  /\ detect_mode = 0
  /\ custom_sym \in Symbols
  /\ suffixes_1d = {}
  /\ suffixes_2d = {<<"0", "2">>}
  /\ regex = _setup_highlighter(patient_code_len, trailing_commas, br_mode,
                                detect_mode, custom_sym)

Init ==
  /\ engine \in {"convert_rows", "convert_and_save"}
  /\ \/ InitCfg /\ rows \in BatchSet
     \/ InitScenario /\ rows \in ScenarioBatches
  /\ idx = 0
  /\ phase = "convert"
  /\ out_lines = <<>>
  /\ changes_rows = <<>>
  /\ error_rows = <<>>
  /\ counters = counters0
  /\ arg = <<>>
  /\ res = <<>>
  /\ op = "none"
  /\ branches_json = _empty
  /\ calls = <<>>

\* --------------------------------------------------------------- actions
\* converter.py 35-128: convert_rows processes the next row
ConvertRowsStep ==
  /\ engine = "convert_rows"
  /\ phase = "convert"
  /\ idx < Len(rows)
  /\ LET r == convert_rows_row(idx + 1, rows[idx + 1], changes_rows, error_rows)
     IN /\ out_lines' = Append(out_lines, r.out)
        /\ changes_rows' = r.changes
        /\ error_rows' = r.errors
  /\ idx' = idx + 1
  /\ UNCHANGED <<cfgvars, rows, phase, counters, fnvars>>

\* converter.py 130: convert_rows returns
ConvertRowsReturn ==
  /\ engine = "convert_rows"
  /\ phase = "convert"
  /\ idx = Len(rows)
  /\ phase' = "returned"
  /\ UNCHANGED <<cfgvars, rows, idx, out_lines, changes_rows, error_rows, counters, fnvars>>

\* gui.py 485-567: convert_and_save processes the next row
ConvertAndSaveStep ==
  /\ engine = "convert_and_save"
  /\ phase = "convert"
  /\ idx < Len(rows)
  /\ LET r == convert_and_save_row(idx + 1, rows[idx + 1], changes_rows, counters)
     IN /\ out_lines' = Append(out_lines, r.out)
        /\ changes_rows' = r.changes
        /\ counters' = r.c
  /\ idx' = idx + 1
  /\ UNCHANGED <<cfgvars, rows, phase, error_rows, fnvars>>

\* gui.py 573-588: the manual dialog opens after the loop
OpenManualDialog ==
  /\ engine = "convert_and_save"
  /\ phase = "convert"
  /\ idx = Len(rows)
  /\ should_open_manual(counters)
  /\ manual_pool(counters) # <<>>
  /\ phase' = "manual"
  /\ UNCHANGED <<cfgvars, rows, idx, out_lines, changes_rows, error_rows, counters, fnvars>>

\* gui.py 959-985: the button of the dialog runs _apply on the chosen rows
\* (some row, or _apply has nothing to do) and column
ManualApply ==
  /\ phase = "manual"
  /\ counters.manual_applies < MaxManual
  /\ \E sel \in (SUBSET {manual_pool(counters)[i].line_no : i \in 1..Len(manual_pool(counters))}) \ {{}},
        tcol \in -1..(max_cols(manual_pool(counters)) - 1) :
       /\ out_lines' = manual_apply(manual_pool(counters), 1, sel, tcol,
                          [outs |-> out_lines, changes |-> changes_rows, c |-> counters]).outs
       /\ changes_rows' = manual_apply(manual_pool(counters), 1, sel, tcol,
                          [outs |-> out_lines, changes |-> changes_rows, c |-> counters]).changes
       /\ counters' = [manual_apply(manual_pool(counters), 1, sel, tcol,
                          [outs |-> out_lines, changes |-> changes_rows, c |-> counters]).c
                       EXCEPT !.manual_applies = @ + 1]
  /\ UNCHANGED <<cfgvars, rows, idx, phase, error_rows, fnvars>>

\* gui.py 594-: the dialog is closed, or was not opened, and the run is saved
Save ==
  /\ engine = "convert_and_save"
  /\ \/ phase = "manual"
     \/ /\ phase = "convert"
        /\ idx = Len(rows)
        /\ ~(should_open_manual(counters) /\ manual_pool(counters) # <<>>)
  /\ phase' = "saved"
  /\ UNCHANGED <<cfgvars, rows, idx, out_lines, changes_rows, error_rows, counters, fnvars>>

Next ==
  \/ ConvertRowsStep
  \/ ConvertRowsReturn
  \/ ConvertAndSaveStep
  \/ OpenManualDialog
  \/ ManualApply
  \/ Save

Spec == Init /\ [][Next]_vars

\* ------------------------------------------- the helpers applied on their own
\* the codes a helper is applied to: the strings of at most MaxCodeLen
\* characters a detection pattern can capture (group 1 is over [0-9\-])
CodeAlphabet == {"0", "1", Hyphen}
CodeSet == UNION {[1..n -> CodeAlphabet] : n \in 0..MaxCodeLen}

InitFn ==
  /\ engine = "none"
  /\ patient_code_len \in 1..MaxN
  /\ patient_code_conv_len \in 1..MaxL
  /\ trailing_commas = 1
  /\ br_mode \in {0, 1, 2}
  /\ detect_mode = 0
  /\ custom_sym = <<"*">>
  /\ suffixes_1d \in Suffixes1
  /\ suffixes_2d \in Suffixes2
  /\ regex = _setup_highlighter(patient_code_len, trailing_commas, br_mode,
                                detect_mode, custom_sym)
  /\ rows = <<>>
  /\ idx = 0
  /\ phase = "fn"
  /\ out_lines = <<>>
  /\ changes_rows = <<>>
  /\ error_rows = <<>>
  /\ counters = counters0
  /\ arg \in CodeSet
  /\ res = <<>>
  /\ op = "none"
  /\ branches_json = _empty
  /\ calls = <<>>

\* gui.py 426: _normalize_code(arg)
ApplyNormalize ==
  /\ phase = "fn" /\ op = "none"
  /\ res' = _normalize_code(arg, patient_code_conv_len)
  /\ op' = "normalize"
  /\ UNCHANGED <<cfgvars, runvars, arg>>

\* gui.py 438: _format_code_force_branch_general(arg, 10, L)
ApplyForceBranch ==
  /\ phase = "fn" /\ op = "none"
  /\ res' = fallback_fn(arg)
  /\ op' = "force"
  /\ UNCHANGED <<cfgvars, runvars, arg>>

\* gui.py 406: _strip_branch(arg)
ApplyStripBranch ==
  /\ phase = "fn" /\ op = "none"
  /\ res' = _strip_branch(arg, patient_code_len, br_mode, suffixes_1d, suffixes_2d)
  /\ op' = "strip"
  /\ UNCHANGED <<cfgvars, runvars, arg>>

\* gui.py 417-423: the branch-suffix resolution of _format_code(arg)
ApplyResolveBranch ==
  /\ phase = "fn" /\ op = "none"
  /\ res' = ResolveBranch(arg, patient_code_len, br_mode, suffixes_1d, suffixes_2d)
  /\ op' = "resolve"
  /\ UNCHANGED <<cfgvars, runvars, arg>>

\* gui.py 415: _format_code(arg)
ApplyFormatCode ==
  /\ phase = "fn" /\ op = "none"
  /\ res' = primary_fn(arg)
  /\ op' = "format"
  /\ UNCHANGED <<cfgvars, runvars, arg>>

\* highlighter.py 71: _build_regex on settings nothing has validated, the
\* allowed widths unset
ApplyBuildRegex ==
  /\ phase = "fn" /\ op = "none"
  /\ arg = <<>>
  /\ \E n \in 0..MaxN, t \in 0..MaxT, d \in {0, 1}, sym \in Symbols \cup {<<>>} :
       /\ arg' = [n_digits |-> n, trailing_commas |-> t, detect_mode |-> d, custom_sym |-> sym]
       /\ res' = _build_regex(n, t, d, sym, <<>>)
  /\ op' = "build"
  /\ UNCHANGED <<cfgvars, runvars>>

NextFn ==
  \/ ApplyBuildRegex
  \/ ApplyNormalize
  \/ ApplyForceBranch
  \/ ApplyStripBranch
  \/ ApplyResolveBranch
  \/ ApplyFormatCode

SpecFn == InitFn /\ [][NextFn]_vars

\* ------------------------------------------------- the suffix registry
\* the arguments of register_suffix: 1- and 2-digit strings, with blanks
\* around them, and strings that are not 1 or 2 digits
SuffixArgs ==
  { <<"2">>, <<"1">>, <<" ", "1", " ">>, <<"1", "2">>, <<"0", "2">>, <<" ", "0", "2">>,
    <<>>, <<" ">>, <<"1", "2", "3">>, <<"1", " ", "2">>, <<"-", "1">> }

InitReg ==
  /\ engine = "none"
  /\ patient_code_len = 1
  /\ patient_code_conv_len = 1
  /\ trailing_commas = 1
  /\ br_mode = 0
  /\ detect_mode = 0
  /\ custom_sym = <<"*">>
  /\ suffixes_1d = {}
  /\ suffixes_2d = {}
  /\ regex = _setup_highlighter(patient_code_len, trailing_commas, br_mode,
                                detect_mode, custom_sym)
  /\ rows = <<>>
  /\ idx = 0
  /\ phase = "registry"
  /\ out_lines = <<>>
  /\ changes_rows = <<>>
  /\ error_rows = <<>>
  /\ counters = counters0
  /\ arg = <<>>
  /\ res = <<>>
  /\ op = "none"
  /\ branches_json = _empty
  /\ calls = <<>>

\* branch_manager.py 96: register_suffix(suffix)
RegisterSuffix ==
  /\ phase = "registry"
  /\ Len(calls) < MaxCalls
  /\ \E suffix \in SuffixArgs :
       /\ arg' = suffix
       /\ branches_json' = register_suffix(branches_json, suffix).file
       /\ res' = register_suffix(branches_json, suffix).raised
       /\ calls' = Append(calls, suffix)
  /\ op' = "register"
  /\ UNCHANGED <<engine, patient_code_len, patient_code_conv_len, trailing_commas, br_mode,
                 detect_mode, custom_sym, regex, suffixes_1d, suffixes_2d, runvars>>

\* gui.py 311-314: the lists the conversion is given, bm.list_suffixes(1)
\* and bm.list_suffixes(2)
ListSuffixes ==
  /\ phase = "registry"
  /\ suffixes_1d' = elements(list_suffixes(branches_json, 1))
  /\ suffixes_2d' = elements(list_suffixes(branches_json, 2))
  /\ op' = "list"
  /\ UNCHANGED <<engine, patient_code_len, patient_code_conv_len, trailing_commas, br_mode,
                 detect_mode, custom_sym, regex, regvars, runvars, arg, res>>

NextReg ==
  \/ RegisterSuffix
  \/ ListSuffixes

SpecReg == InitReg /\ [][NextReg]_vars

\* ============================================================= the claims
\* the input line of row i, the end offset of its first anchor match, and
\* whether the run is still the automatic conversion (no manual _apply yet)
line_of(i) == join(rows[i])
anchor_of(i) == RE_FIELD_search(line_of(i))
automatic == counters.manual_applies = 0
\* the registered suffixes of the width the branch mode selects
suffix_set == IF br_mode = 1 THEN suffixes_1d ELSE IF br_mode = 2 THEN suffixes_2d ELSE {}
\* x is of the form head-suffix with a registered suffix of that width
hyphen_form(x) == HasHyphen(x) /\ SplitRight(x) \in suffix_set
\* the characters of s that cannot belong to a captured code
non_code_chars(s) == SelectSeq(s, LAMBDA ch : ch \notin charclass)
\* row i has a match the primary pattern's replacement rewrote
primary_rewrote(i) ==
  \E j \in 1..Len(changes_rows) :
    /\ changes_rows[j].line_no = i
    /\ changes_rows[j].original_code # changes_rows[j].converted_code
    /\ \/ changes_rows[j].method = <<"normal">>
       \/ engine = "convert_and_save" /\ changes_rows[j].method = <<"fallback">>

\* C1: head preservation. For every row the automatic conversion has
\* processed whose line has an anchor, with k the end offset of the first
\* anchor match, the first k characters of the output line are the first k
\* characters of the input line, whatever stage the row ended in.
C1_HeadPreservation ==
  automatic =>
    \A i \in 1..Len(out_lines) :
      anchor_of(i) # -1 =>
        /\ Len(out_lines[i]) >= anchor_of(i)
        /\ SubSeq(out_lines[i], 1, anchor_of(i)) = SubSeq(line_of(i), 1, anchor_of(i))
\* a rewritten row whose tail holds a second anchor-like field
C1_Witness ==
  /\ automatic
  /\ \E i \in 1..Len(out_lines) :
       /\ anchor_of(i) # -1
       /\ out_lines[i] # line_of(i)
       /\ RE_FIELD_search(Drop(line_of(i), anchor_of(i))) # -1

\* C2: every character outside the captured codes is kept. The captures are
\* over [0-9\-], so the commas, quotes, blanks and letters of a line all lie
\* outside them: as stated, the output line of every processed row has the
\* same characters outside [0-9\-], in the same order, as its input line.
C2_OnlyCodesChange ==
  automatic =>
    \A i \in 1..Len(out_lines) :
      non_code_chars(out_lines[i]) = non_code_chars(line_of(i))

\* C3: comma-count stability. In trailing-comma mode, a row in which the
\* primary pattern's replacement rewrote at least one match has as many
\* commas in its output line as in its input line, and the comma check of
\* convert_and_save (gui.py 560-563) never records a row.
C3_CommaCountStable ==
  (automatic /\ detect_mode = 0) =>
    /\ \A i \in 1..Len(out_lines) :
         primary_rewrote(i) => count_commas(out_lines[i]) = count_commas(line_of(i))
    /\ counters.comma_mismatch_rows = <<>>
\* a row with a rewritten primary match in trailing-comma mode
C3_Witness ==
  /\ automatic /\ detect_mode = 0
  /\ \E i \in 1..Len(out_lines) : primary_rewrote(i) /\ out_lines[i] # line_of(i)

\* C4: every ChangeRecord of a run, whatever its method, carries a converted
\* code of exactly the conversion width L.
C4_ConvertedWidth ==
  \A j \in 1..Len(changes_rows) :
    Len(changes_rows[j].converted_code) = patient_code_conv_len
\* an automatic record of a hyphenated code whose width is not L, next to a
\* manual record
C4_Witness ==
  /\ \E j \in 1..Len(changes_rows) :
       /\ changes_rows[j].method = <<"normal">>
       /\ HasHyphen(changes_rows[j].original_code)
       /\ Len(changes_rows[j].original_code) # patient_code_conv_len
  /\ \E j \in 1..Len(changes_rows) : changes_rows[j].method[1] = "manual"

\* C5: the normalizer is width-exact and idempotent. For a digit string x,
\* normalize(x, L) has length L and normalizing it again returns it, for
\* _normalize_code and for _format_code_force_branch_general.
C5_NormalizeIdempotent ==
  /\ (op = "normalize" /\ isdigit(arg)) =>
        /\ Len(res) = patient_code_conv_len
        /\ _normalize_code(res, patient_code_conv_len) = res
  /\ (op = "force" /\ isdigit(arg)) =>
        /\ Len(res) = patient_code_conv_len
        /\ fallback_fn(res) = res
\* a digit string shorter than L has been normalized
C5_Witness ==
  op = "normalize" /\ isdigit(arg) /\ Len(arg) < patient_code_conv_len /\ res # arg

\* C6: the result of _normalize_code on a digit string x: its L characters
\* are, from the right, the characters of x, and "0" where x has run out.
C6_NormalizeResult ==
  (op = "normalize" /\ isdigit(arg)) =>
    /\ Len(res) = patient_code_conv_len
    /\ \A i \in 1..patient_code_conv_len :
         res[i] = IF i + Len(arg) - patient_code_conv_len >= 1
                  THEN arg[i + Len(arg) - patient_code_conv_len]
                  ELSE "0"
\* a digit string longer than L has been normalized
C6_Witness ==
  op = "normalize" /\ isdigit(arg) /\ Len(arg) > patient_code_conv_len

\* C7: the normalizer returns an input that contains a non-digit character
\* unmodified, in the primary stage (_normalize_code) as in the fallback
\* stage (_format_code_force_branch_general).
C7_NonDigitUnmodified ==
  (op \in {"normalize", "force"} /\ \E i \in 1..Len(arg) : arg[i] \notin Digits) => res = arg

\* C8: suffix-off invariant. With branch mode off the resolver returns its
\* input unchanged, whatever the suffix sets hold.
C8_SuffixOff ==
  (op \in {"strip", "resolve"} /\ br_mode = 0) => res = arg
\* mode off, and the input ends in a registered suffix at width N+1 or N+2,
\* or has a registered suffix after its hyphen
C8_Witness ==
  /\ op \in {"strip", "resolve"} /\ br_mode = 0
  /\ \/ Len(arg) = patient_code_len + 1 /\ Right(arg, 1) \in suffixes_1d
     \/ Len(arg) = patient_code_len + 2 /\ Right(arg, 2) \in suffixes_2d
     \/ HasHyphen(arg) /\ SplitRight(arg) \in suffixes_1d \cup suffixes_2d

\* C9: for a code that is not split at a hyphen, the resolver strips the
\* trailing k characters if and only if the mode is strip-k, the code is all
\* digits, its length is N+k and its last k characters are a registered
\* suffix; otherwise the code is returned unchanged.
C9_StripIff ==
  (op = "resolve" /\ ~hyphen_form(arg)) =>
    res = IF /\ br_mode \in {1, 2}
             /\ isdigit(arg)
             /\ Len(arg) = patient_code_len + br_mode
             /\ Right(arg, br_mode) \in suffix_set
          THEN DropRight(arg, br_mode)
          ELSE arg

\* C10: for an input head-suffix whose part after the first hyphen is a
\* registered suffix of the width the mode selects, the resolver returns
\* exactly head, whatever the length of head.
C10_HyphenHead ==
  (op = "resolve" /\ hyphen_form(arg)) => res = SplitLeft(arg)

\* the tail of the input line of row i, and of its output line, behind the
\* first anchor match
tail_in(i) == tail_of(line_of(i), anchor_of(i))
tail_out(i) == tail_of(out_lines[i], anchor_of(i))
\* the text t occurs in s
occurs(t, s) == \E k \in 0..(Len(s) - Len(t)) : SubSeq(s, k + 1, k + Len(t)) = t
\* the positions of the change log, and of the error log, that belong to row i
changes_of(i) == {j \in 1..Len(changes_rows) : changes_rows[j].line_no = i}
errors_of(i) == {j \in 1..Len(error_rows) : error_rows[j].line_no = i}
\* the settings of the documented example with conversion width 6
scenario1 ==
  /\ patient_code_len = 10 /\ patient_code_conv_len = 6 /\ trailing_commas = 2
  /\ br_mode = 2 /\ suffixes_2d = {<<"0", "2">>} /\ detect_mode = 0

\* C11: scenario 1. With N = 10, L = 6, T = 2, the 2-digit branch mode and
\* the registered suffix "02", every processed row whose tail contains
\* ,0000004680-02,, has an output tail that contains ,004680,, and exactly
\* one ChangeRecord, of the primary method, from 0000004680-02 to 004680.
C11_HyphenScenario ==
  (automatic /\ scenario1) =>
    \A i \in 1..Len(out_lines) :
      (anchor_of(i) # -1
       /\ occurs(<<Comma>> \o Code10 \o <<Hyphen, "0", "2", Comma, Comma>>, tail_in(i))) =>
        /\ occurs(<<Comma, "0", "0", "4", "6", "8", "0", Comma, Comma>>, tail_out(i))
        /\ Cardinality(changes_of(i)) = 1
        /\ \A j \in changes_of(i) :
             /\ changes_rows[j].method = <<"normal">>
             /\ changes_rows[j].original_code = Code10 \o <<Hyphen, "0", "2">>
             /\ changes_rows[j].converted_code = <<"0", "0", "4", "6", "8", "0">>

\* the primary matches of the tail of row i
matches_of(i) == finditer(regex, tail_in(i))
\* the number of consecutive commas of s from offset i
RECURSIVE comma_run(_, _)
comma_run(s, i) == IF i < Len(s) /\ At(s, i) = Comma THEN 1 + comma_run(s, i + 1) ELSE 0
\* the commas that follow the code captured by match m of s, behind blanks
commas_after(s, m) == comma_run(s, SkipWs(s, m.ge))
\* a candidate of trailing-comma mode at offset p of s: a comma, blanks, a
\* run of code characters of an allowed width w, blanks, c or more commas
candidate_at(s, p, w, c) ==
  /\ p < Len(s) /\ At(s, p) = Comma
  /\ ClassRun(s, SkipWs(s, p + 1), w)
  /\ comma_run(s, SkipWs(s, SkipWs(s, p + 1) + w)) >= c
\* the allowed widths of the pattern in use
widths == {regex.lengths[k] : k \in 1..Len(regex.lengths)}
\* offset p of s lies inside one of the matches ms, behind its first character
covered(ms, p) == \E k \in 1..Len(ms) : ms[k].start < p /\ p < ms[k].end

C13_QuotedPrimary ==
  (automatic /\ detect_mode = 0 /\ patient_code_len = 10 /\ trailing_commas = 2
   /\ primary_fn(Code10) # Code10) =>
    \A i \in 1..Len(out_lines) :
      (anchor_of(i) # -1
       /\ occurs(<<Comma, Quote>> \o Code10 \o <<Quote, Comma, Comma>>, tail_in(i))) =>
        \E j \in changes_of(i) :
          /\ changes_rows[j].method = <<"normal">>
          /\ changes_rows[j].original_code = Code10
          /\ changes_rows[j].converted_code = primary_fn(Code10)

\* the offset of the first comma behind the candidate of width w at offset p
commas_at(s, p, w) == SkipWs(s, SkipWs(s, p + 1) + w)
\* the code of the candidate of width w at offset p
code_at(s, p, w) == SubSeq(s, SkipWs(s, p + 1) + 1, SkipWs(s, p + 1) + w)
\* the ChangeRecords of the primary method that belong to row i
primary_changes_of(i) == {j \in changes_of(i) : changes_rows[j].method = <<"normal">>}

\* C14: adjacent candidates. In trailing-comma mode, when the tail of a
\* processed row holds a candidate at offset p that exactly T commas follow
\* and the last of these commas starts a second candidate, both offsets
\* start a primary match, and when the primary conversion changes both codes
\* the row has two ChangeRecords of the primary method.
C14_AdjacentCandidates ==
  (automatic /\ detect_mode = 0) =>
    \A i \in 1..Len(out_lines) :
      anchor_of(i) # -1 =>
        \A p \in 0..(Len(tail_in(i)) - 1) : \A w1, w2 \in widths :
          (/\ candidate_at(tail_in(i), p, w1, trailing_commas)
           /\ comma_run(tail_in(i), commas_at(tail_in(i), p, w1)) = trailing_commas
           /\ candidate_at(tail_in(i), commas_at(tail_in(i), p, w1) + trailing_commas - 1,
                           w2, trailing_commas)) =>
            /\ \E k \in 1..Len(matches_of(i)) : matches_of(i)[k].start = p
            /\ \E k \in 1..Len(matches_of(i)) :
                 matches_of(i)[k].start = commas_at(tail_in(i), p, w1) + trailing_commas - 1
            /\ (/\ primary_fn(code_at(tail_in(i), p, w1)) # code_at(tail_in(i), p, w1)
                /\ primary_fn(code_at(tail_in(i), commas_at(tail_in(i), p, w1) + trailing_commas - 1, w2))
                     # code_at(tail_in(i), commas_at(tail_in(i), p, w1) + trailing_commas - 1, w2)) =>
                 Cardinality(primary_changes_of(i)) >= 2

\* C15: the pattern builder fails on invalid settings. Whenever _build_regex
\* is applied with N <= 0, with T <= 0 in trailing-comma mode, or with the
\* empty symbol in custom-symbol mode, it fails and produces no pattern.
C15_InvalidConfig ==
  (op = "build"
   /\ (\/ arg.n_digits <= 0
       \/ arg.detect_mode = 0 /\ arg.trailing_commas <= 0
       \/ arg.detect_mode = 1 /\ arg.custom_sym = <<>>)) =>
    res = re_error

\* C16: a row without anchor passes through. For every row the automatic
\* conversion has processed whose line holds no anchor field, the output
\* line is the input line, and the row has neither a ChangeRecord nor an
\* ErrorRecord, whatever the patterns would match in it.
C16_NoAnchorPassthrough ==
  automatic =>
    \A i \in 1..Len(out_lines) :
      anchor_of(i) = -1 =>
        /\ out_lines[i] = line_of(i)
        /\ changes_of(i) = {}
        /\ errors_of(i) = {}
\* convert_rows has passed a row without anchor in which the primary pattern
\* has a match whose code the primary conversion would change
C16_Witness ==
  /\ engine = "convert_rows"
  /\ \E i \in 1..Len(out_lines) :
       /\ anchor_of(i) = -1
       /\ \E k \in 1..Len(finditer(regex, line_of(i))) :
            primary_fn(Group1(line_of(i), finditer(regex, line_of(i))[k]))
              # Group1(line_of(i), finditer(regex, line_of(i))[k])

\* C17: the error log of convert_rows. While convert_rows runs and after it
\* has returned, each line number has at most one ErrorRecord, no line
\* number has both an ErrorRecord and a ChangeRecord, and every row with an
\* ErrorRecord has its input line as output line.
C17_ErrorRecords ==
  engine = "convert_rows" =>
    /\ \A a, b \in 1..Len(error_rows) :
         error_rows[a].line_no = error_rows[b].line_no => a = b
    /\ \A a \in 1..Len(error_rows) :
         /\ changes_of(error_rows[a].line_no) = {}
         /\ error_rows[a].line_no \in 1..Len(out_lines)
         /\ out_lines[error_rows[a].line_no] = line_of(error_rows[a].line_no)
\* convert_rows has returned from a batch with an ErrorRecord for one row
\* and a ChangeRecord for another
C17_Witness ==
  /\ engine = "convert_rows" /\ phase = "returned"
  /\ \E a \in 1..Len(error_rows) : \E j \in 1..Len(changes_rows) :
       changes_rows[j].line_no # error_rows[a].line_no

\* C18: the classification of convert_rows is total. Every processed row
\* with an anchor has either at least one ChangeRecord and no ErrorRecord,
\* or no ChangeRecord and exactly one ErrorRecord, whose reason is
\* no_code_detected or no_change; and every processed row whose output line
\* differs from its input line has a ChangeRecord.
C18_ClassificationTotal ==
  engine = "convert_rows" =>
    \A i \in 1..Len(out_lines) :
      /\ anchor_of(i) # -1 =>
           \/ changes_of(i) # {} /\ errors_of(i) = {}
           \/ /\ changes_of(i) = {}
              /\ Cardinality(errors_of(i)) = 1
              /\ \A a \in errors_of(i) :
                   error_rows[a].error_reason \in {"no_code_detected", "no_change"}
      /\ out_lines[i] # line_of(i) => changes_of(i) # {}

\* the fallback matches of the tail of row i and their captured codes
fallback_matches_of(i) == finditer(FALLBACK_PAT_10(trailing_commas), tail_in(i))
fallback_codes_of(i) == groups(tail_in(i), fallback_matches_of(i))

\* C19: no code detected. For every row convert_rows has processed whose
\* line has an anchor, whose tail has no primary match and in whose tail the
\* fallback conversion changes no code the fallback pattern captures, the
\* row has exactly one ErrorRecord, of reason no_code_detected and with an
\* empty matched-codes field, no ChangeRecord, and the output line is the
\* input line.
C19_NoCodeDetected ==
  engine = "convert_rows" =>
    \A i \in 1..Len(out_lines) :
      (/\ anchor_of(i) # -1
       /\ matches_of(i) = <<>>
       /\ ~differs(fallback_codes_of(i), map_fallback(fallback_codes_of(i)))) =>
        /\ Cardinality(errors_of(i)) = 1
        /\ \A a \in errors_of(i) :
             /\ error_rows[a].error_reason = "no_code_detected"
             /\ error_rows[a].matched_codes = <<>>
             /\ error_rows[a].original_line = line_of(i)
        /\ changes_of(i) = {}
        /\ out_lines[i] = line_of(i)
\* convert_rows has processed, with N = 10 and T = 2, a row whose tail holds
\* the 8-digit field ,20250131,,
C19_Witness ==
  /\ engine = "convert_rows" /\ patient_code_len = 10 /\ trailing_commas = 2
  /\ \E i \in 1..Len(out_lines) :
       /\ anchor_of(i) # -1
       /\ matches_of(i) = <<>>
       /\ occurs(<<Comma, "2", "0", "2", "5", "0", "1", "3", "1", Comma, Comma>>, tail_in(i))
       /\ errors_of(i) # {}

\* the codes the primary matches of the tail of row i capture
codes_of(i) == groups(tail_in(i), matches_of(i))

\* C20: no change. For every row convert_rows has processed whose line has
\* an anchor and whose tail has at least one primary match, when the primary
\* conversion changes none of the captured codes and the fallback conversion
\* changes none of them and none of the codes the fallback pattern captures,
\* the row has exactly one ErrorRecord, of reason no_change, listing the
\* captured codes without duplicates in the order of their first
\* occurrence, no ChangeRecord, and the output line is the input line.
C20_NoChange ==
  engine = "convert_rows" =>
    \A i \in 1..Len(out_lines) :
      (/\ anchor_of(i) # -1
       /\ matches_of(i) # <<>>
       /\ ~differs(codes_of(i), map_primary(codes_of(i)))
       /\ ~differs(codes_of(i), map_fallback(codes_of(i)))
       /\ ~differs(fallback_codes_of(i), map_fallback(fallback_codes_of(i)))) =>
        /\ Cardinality(errors_of(i)) = 1
        /\ \A a \in errors_of(i) :
             /\ error_rows[a].error_reason = "no_change"
             /\ error_rows[a].matched_codes = join_space(dedup(codes_of(i)))
        /\ changes_of(i) = {}
        /\ out_lines[i] = line_of(i)

\* the number of offsets of s at which the text t occurs
count_occurrences(t, s) ==
  Cardinality({k \in 0..(Len(s) - Len(t)) : SubSeq(s, k + 1, k + Len(t)) = t})

\* C21: custom-symbol mode keeps the symbol. In custom-symbol mode a
\* rewritten match ends in the symbol that followed the code, never in T
\* commas: the output line of every row the automatic conversion has
\* processed holds the symbol as often as its input line does.
C21_SymbolKept ==
  (automatic /\ detect_mode = 1) =>
    \A i \in 1..Len(out_lines) :
      count_occurrences(regex.sym, out_lines[i]) = count_occurrences(regex.sym, line_of(i))

\* C22: a ChangeRecord means a change. Every ChangeRecord of the change log
\* has a converted code that differs from its original code, so a match
\* whose converted value equals its text has no ChangeRecord.
C22_RecordIffChanged ==
  \A j \in 1..Len(changes_rows) :
    changes_rows[j].original_code # changes_rows[j].converted_code

\* C23: the logs are ordered. When a run has finished (convert_rows has
\* returned, or convert_and_save has reached the save after the automatic
\* conversion and any manual applications), the change log and the error
\* log are each in non-decreasing order of line number.
C23_LogsOrdered ==
  phase \in {"returned", "saved"} =>
    /\ \A a, b \in 1..Len(changes_rows) :
         a < b => changes_rows[a].line_no <= changes_rows[b].line_no
    /\ \A a, b \in 1..Len(error_rows) :
         a < b => error_rows[a].line_no <= error_rows[b].line_no

\* the comma-mismatch entries of row i
mismatches_of(i) ==
  {a \in 1..Len(counters.comma_mismatch_rows) : counters.comma_mismatch_rows[a].line_no = i}

\* C24: the comma check. While convert_and_save converts automatically,
\* every processed row has a comma-mismatch entry if and only if its output
\* line and its input line differ in their number of commas; it then has one
\* entry, which holds the two numbers. Every entry belongs to a processed
\* row, and the manual dialog leaves the entries as they are.
C24_CommaValidation ==
  engine = "convert_and_save" =>
    /\ automatic =>
         \A i \in 1..Len(out_lines) :
           IF count_commas(out_lines[i]) # count_commas(line_of(i))
           THEN /\ Cardinality(mismatches_of(i)) = 1
                /\ \A a \in mismatches_of(i) :
                     /\ counters.comma_mismatch_rows[a].before = count_commas(line_of(i))
                     /\ counters.comma_mismatch_rows[a].after = count_commas(out_lines[i])
           ELSE mismatches_of(i) = {}
    /\ \A a \in 1..Len(counters.comma_mismatch_rows) :
         /\ counters.comma_mismatch_rows[a].line_no \in 1..Len(out_lines)
         /\ counters.comma_mismatch_rows[a].before
              = count_commas(line_of(counters.comma_mismatch_rows[a].line_no))
         /\ counters.comma_mismatch_rows[a].before # counters.comma_mismatch_rows[a].after
\* a run with a comma-mismatch entry for a rewritten row and none for
\* another row has been saved
C24_Witness ==
  /\ engine = "convert_and_save" /\ automatic /\ phase = "saved"
  /\ \E i, k \in 1..Len(out_lines) :
       /\ mismatches_of(i) # {}
       /\ out_lines[i] # line_of(i)
       /\ mismatches_of(k) = {}

\* the valid suffixes of the given width among the arguments of the calls
\* made so far, stripped
registered(width) ==
  {strip(calls[i]) : i \in {k \in 1..Len(calls) :
                              valid_suffix(strip(calls[k])) /\ Len(strip(calls[k])) = width}}
\* the list xs is in strictly ascending order: sorted and free of duplicates
ascending(xs) == \A i \in 1..(Len(xs) - 1) : str_less(xs[i], xs[i + 1])

\* C25: the suffix registry. From an empty registry, after any sequence of
\* register_suffix calls, list_suffixes(1) holds exactly the 1-digit strings
\* and list_suffixes(2) exactly the 2-digit strings among the stripped
\* arguments, each list in ascending order without duplicates; the last
\* call has raised ValueError exactly when its stripped argument is not a
\* string of 1 or 2 digits, and the lists handed to the conversion are
\* those of the registry at the time they were read.
C25_Registry ==
  phase = "registry" =>
    /\ elements(list_suffixes(branches_json, 1)) = registered(1)
    /\ elements(list_suffixes(branches_json, 2)) = registered(2)
    /\ ascending(list_suffixes(branches_json, 1))
    /\ ascending(list_suffixes(branches_json, 2))
    /\ branches_json.suffixes_1d = list_suffixes(branches_json, 1)
    /\ branches_json.suffixes_2d = list_suffixes(branches_json, 2)
    /\ calls # <<>> =>
         (res = "ValueError") = ~valid_suffix(strip(calls[Len(calls)]))
    /\ suffixes_1d \subseteq registered(1)
    /\ suffixes_2d \subseteq registered(2)
\* two 1-digit suffixes registered in descending order, and the last call
\* rejected
C25_Witness ==
  /\ phase = "registry"
  /\ Len(calls) >= 3
  /\ calls[1] = <<"2">>
  /\ strip(calls[2]) = <<"1">>
  /\ res = "ValueError"
  /\ list_suffixes(branches_json, 1) = << <<"1">>, <<"2">> >>

\* the code a forced strip of convert_and_save makes of old
forced_code(old) ==
  _normalize_code(DropRight(old, fallback_drop(br_mode)), patient_code_conv_len)
\* the conditions under which convert_and_save tries the forced strip
forced_case(old) ==
  /\ primary_fn(old) = old
  /\ br_mode \in {1, 2}
  /\ isdigit(old)
  /\ Len(old) = patient_code_len + fallback_drop(br_mode)

\* C26: the per-match fallback of convert_and_save. Every ChangeRecord of
\* method fallback is for a code the normal conversion leaves unchanged, in
\* a strip-k mode, all digits and of width N+k, and its converted code is
\* the code without its last k digits, normalized to L, and differs from
\* the code; a record of method normal is for a code outside these
\* conditions or one the forced strip does not change; the records of
\* method fallback are as many as the fallback count, and none is for a code
\* with a hyphen.
C26_GuiFallback ==
  (engine = "convert_and_save" /\ automatic) =>
    /\ \A j \in 1..Len(changes_rows) :
         IF changes_rows[j].method = <<"fallback">>
         THEN /\ forced_case(changes_rows[j].original_code)
              /\ changes_rows[j].converted_code = forced_code(changes_rows[j].original_code)
              /\ changes_rows[j].converted_code # changes_rows[j].original_code
              /\ ~HasHyphen(changes_rows[j].original_code)
         ELSE /\ changes_rows[j].method = <<"normal">>
              /\ changes_rows[j].converted_code = primary_fn(changes_rows[j].original_code)
              /\ forced_case(changes_rows[j].original_code) =>
                   forced_code(changes_rows[j].original_code) = changes_rows[j].original_code
    /\ counters.fallback_total
         = Cardinality({j \in 1..Len(changes_rows) : changes_rows[j].method = <<"fallback">>})
\* a fallback record whose dropped digits are no registered suffix
C26_Witness ==
  /\ engine = "convert_and_save" /\ automatic
  /\ \E j \in 1..Len(changes_rows) :
       /\ changes_rows[j].method = <<"fallback">>
       /\ Right(changes_rows[j].original_code, fallback_drop(br_mode)) \notin suffix_set

\* C27: converted_line is the emitted line. When a run has finished, every
\* ChangeRecord of the change log has a converted_line, and it is the
\* output line of the record's line number, after convert_rows and after
\* convert_and_save with any manual applications.
C27_ConvertedLineFinal ==
  phase \in {"returned", "saved"} =>
    \A j \in 1..Len(changes_rows) :
      /\ changes_rows[j].converted_line # None
      /\ changes_rows[j].converted_line = out_lines[changes_rows[j].line_no]

\* C28: the field behind the anchor. The anchor match takes the comma that
\* follows the anchor field, so the tail starts inside the next field: for
\* every row the automatic conversion has processed whose line has an
\* anchor, with n the width of the first field of the tail, no primary
\* match and no fallback match starts before offset n, the first comma of
\* the tail, and the output tail starts with the same, unchanged, field, in
\* every configuration.
C28_FieldBehindAnchor ==
  automatic =>
    \A i \in 1..Len(out_lines) :
      anchor_of(i) # -1 =>
        \A n \in 0..Len(tail_in(i)) :
          (/\ \A k \in 1..n : tail_in(i)[k] # Comma
           /\ n < Len(tail_in(i)) => tail_in(i)[n + 1] = Comma) =>
            /\ \A k \in 1..Len(matches_of(i)) : matches_of(i)[k].start >= n
            /\ \A k \in 1..Len(fallback_matches_of(i)) : fallback_matches_of(i)[k].start >= n
            /\ Len(tail_out(i)) >= n
            /\ Take(tail_out(i), n) = Take(tail_in(i), n)
\* a processed row whose field behind the anchor is a code of the detection
\* width that the conversion would change, followed by T commas
C28_Witness ==
  /\ automatic /\ detect_mode = 0
  /\ \E i \in 1..Len(out_lines) :
       /\ anchor_of(i) # -1
       /\ ClassRun(tail_in(i), 0, patient_code_len)
       /\ LitAt(tail_in(i), patient_code_len, Commas(trailing_commas))
       /\ primary_fn(Take(tail_in(i), patient_code_len)) # Take(tail_in(i), patient_code_len)
       /\ out_lines[i] = line_of(i)

\* C29: the fallback rewrite adds commas. For every row convert_rows has
\* processed that has a ChangeRecord of method fallback, the output line
\* holds 1+T more commas than the input line for each match of the fallback
\* pattern in the tail, hence more commas than the input line.
C29_FallbackAddsCommas ==
  engine = "convert_rows" =>
    \A i \in 1..Len(out_lines) :
      (\E j \in changes_of(i) : changes_rows[j].method = <<"fallback">>) =>
        /\ Len(fallback_matches_of(i)) >= 1
        /\ count_commas(out_lines[i])
             = count_commas(line_of(i))
                 + (1 + trailing_commas) * Len(fallback_matches_of(i))
\* C29 witness: convert_rows accepted a fallback rewrite of a row without a
\* primary match, and the line grew by 1+T commas for its one code.
C29_Witness ==
  /\ engine = "convert_rows"
  /\ \E i \in 1..Len(out_lines) :
       /\ \E j \in changes_of(i) : changes_rows[j].method = <<"fallback">>
       /\ matches_of(i) = <<>>
       /\ Len(fallback_matches_of(i)) = 1
       /\ count_commas(out_lines[i]) = count_commas(line_of(i)) + 1 + trailing_commas


\* the number of candidates the primary pattern matched in the first n rows
RECURSIVE candidates_upto(_)
candidates_upto(n) ==
  IF n = 0 THEN 0
  ELSE candidates_upto(n - 1) + (IF anchor_of(n) = -1 THEN 0 ELSE Len(matches_of(n)))

====
